---- MODULE Spec2Model ----
(***************************************************************************)
(* CargoConfig and CargoConfig::merge of src/src/config/cargo.rs.          *)
(*                                                                         *)
(* A configuration is a record with the sixteen fields of the struct.      *)
(* Option<T> is a sequence of length at most one: None is <<>>, Some(v) is *)
(* <<v>>.  String is a TLA+ string (TLC concatenates strings with \o),     *)
(* Vec<String> is a sequence of strings, usize is a natural number.        *)
(***************************************************************************)
EXTENDS Integers, Sequences, FiniteSets, TLC

VARIABLES
    self,    \* the configuration merge mutates (&mut self)
    other,   \* the argument of the most recent merge (&CargoConfig)
    old,     \* self as it was when the most recent merge was entered
    acc,     \* self.packages of the most recent merge after line 104, before the retain of line 131
    log,     \* the packages named by the info! events of the most recent merge, in order
    merges,  \* number of merges into self so far
    layers,  \* three configuration layers <<A, B, C>> reduced pairwise (empty when unused)
    right,   \* the object that receives the right-nested reduction of the layers
    pc       \* position of the pairwise reduction

vars == <<self, other, old, acc, log, merges, layers, right, pc>>

----------------------------------------------------------------------------
(* Bounds *)

\* most merges into one configuration
MaxMerges == 2
\* most list elements (over packages, exclude, args, Z) of one input configuration
MaxElems == 2
\* largest job count of an input configuration
MaxJobs == 1

----------------------------------------------------------------------------
(* Option<T> *)

None == <<>>
Some(v) == <<v>>
is_none(o) == Len(o) = 0
is_some(o) == Len(o) = 1
unwrap(o) == o[1]

----------------------------------------------------------------------------
(* The struct and its Default *)

Mode == {"Test", "Build"}

FlagNames ==
    {"locked", "frozen", "all_features", "no_default_features", "all", "release", "offline"}

Default ==
    [ locked              |-> FALSE,
      command             |-> "Test",
      no_default_features |-> FALSE,
      features            |-> None,
      unstable_features   |-> <<>>,
      all                 |-> FALSE,
      packages            |-> <<>>,
      exclude             |-> <<>>,
      varargs             |-> <<>>,
      release             |-> FALSE,
      all_features        |-> FALSE,
      frozen              |-> FALSE,
      target              |-> None,
      offline             |-> FALSE,
      profile             |-> None,
      jobs                |-> None ]

----------------------------------------------------------------------------
(* merge, statement by statement *)

\* a = b in place of a |= b
OrAssignOverwrites(a, b) == b

\* a |= b
OrAssign(a, b) == a \/ b

\* Config::pick_optional_config, defined in the parent module (config/mod.rs), whose
\* body cargo.rs does not show: the documented policy for target, the first that is set
pick_optional_config(base_config, other_config) ==
    IF is_some(base_config) THEN base_config ELSE other_config

\* the argument's job count taken whenever it is set
MergeJobsOverrides(mine, theirs) ==
    IF is_some(theirs) THEN theirs ELSE mine

\* lines 82-84
MergeJobs(mine, theirs) ==
    IF is_none(mine) THEN theirs ELSE mine

\* profile accumulated the way features is
MergeProfileAppends(mine, theirs) ==
    IF is_some(theirs)
    THEN IF is_none(mine)
         THEN theirs
         ELSE Some((unwrap(mine) \o " ") \o unwrap(theirs))
    ELSE mine

\* lines 86-88
MergeProfile(mine, theirs) ==
    IF is_none(mine) /\ is_some(theirs) THEN theirs ELSE mine

\* features appended without the push(' ') of line 93
MergeFeaturesNoSeparator(mine, theirs) ==
    IF is_some(theirs)
    THEN IF is_none(mine)
         THEN theirs
         ELSE Some(unwrap(mine) \o unwrap(theirs))
    ELSE mine

\* lines 89-96
MergeFeatures(mine, theirs) ==
    IF is_some(theirs)
    THEN IF is_none(mine)
         THEN theirs
         ELSE Some((unwrap(mine) \o " ") \o unwrap(theirs))
    ELSE mine

\* Vec::contains
contains(vec, x) == \E i \in 1..Len(vec) : vec[i] = x

\* the argument's elements collected without the filter
AdditionalUnfiltered(mine, theirs) == theirs

\* theirs.iter().filter(|p| !mine.contains(p)).cloned().collect()
RECURSIVE Additional(_, _)
Additional(mine, theirs) ==
    IF theirs = <<>>
    THEN <<>>
    ELSE IF ~contains(mine, Head(theirs))
         THEN <<Head(theirs)>> \o Additional(mine, Tail(theirs))
         ELSE Additional(mine, Tail(theirs))

\* mine.extend(additional), additional collected from theirs first
Extend(mine, theirs) == mine \o Additional(mine, theirs)

\* whether the closure of retain keeps package (line 132)
Keep(exclude, package) == ~contains(exclude, package)

\* packages.retain(..): the packages kept, in order (lines 131-137)
RECURSIVE Retained(_, _)
Retained(packages, exclude) ==
    IF packages = <<>>
    THEN <<>>
    ELSE IF Keep(exclude, Head(packages))
         THEN <<Head(packages)>> \o Retained(Tail(packages), exclude)
         ELSE Retained(Tail(packages), exclude)

\* the event emitted for the packages kept instead of those removed
NotifiedKept(packages, exclude) ==
    SelectSeq(packages, LAMBDA p : Keep(exclude, p))

\* the info! events of the retain, one per visit of a package not kept (lines 133-135)
RECURSIVE Notified(_, _)
Notified(packages, exclude) ==
    IF packages = <<>>
    THEN <<>>
    ELSE IF ~Keep(exclude, Head(packages))
         THEN <<Head(packages)>> \o Notified(Tail(packages), exclude)
         ELSE Notified(Tail(packages), exclude)

\* self after lines 74-128 (everything but the retain)
Accumulated(s, o) ==
    [ s EXCEPT
        !.no_default_features = OrAssign(@, o.no_default_features),
        !.release             = OrAssign(@, o.release),
        !.all_features        = OrAssign(@, o.all_features),
        !.offline             = OrAssign(@, o.offline),
        !.target              = pick_optional_config(@, o.target),
        !.all                 = OrAssign(@, o.all),
        !.frozen              = OrAssign(@, o.frozen),
        !.locked              = OrAssign(@, o.locked),
        !.jobs                = MergeJobs(@, o.jobs),
        !.profile             = MergeProfile(@, o.profile),
        !.features            = MergeFeatures(@, o.features),
        !.packages            = Extend(@, o.packages),
        !.exclude             = Extend(@, o.exclude),
        !.varargs             = Extend(@, o.varargs),
        !.unstable_features   = Extend(@, o.unstable_features) ]

\* the retain reading exclude as it was before line 112 extended it
RetainExcludeStale(entry, now) == entry.exclude

\* the exclude list the retain reads: self.exclude as it stands at line 130, where
\* entry is self as merge was entered and now is self after line 128
RetainExclude(entry, now) == now.exclude

\* self.packages after the retain of lines 130-137
Cleanup(entry, now) ==
    [ now EXCEPT !.packages = Retained(@, RetainExclude(entry, now)) ]

\* merge that also copies the argument's command
MergedTakesCommand(s, o) ==
    [ Cleanup(s, Accumulated(s, o)) EXCEPT !.command = o.command ]

\* self after s.merge(&o)
Merged(s, o) == Cleanup(s, Accumulated(s, o))

\* the events s.merge(&o) emits
Events(s, o) ==
    Notified(Accumulated(s, o).packages, RetainExclude(s, Accumulated(s, o)))

----------------------------------------------------------------------------
(* Input configurations: what deserialization can hand to merge *)

Seqs(S, n) == UNION {[1..k -> S] : k \in 0..n}

PackageNames == {"x", "y"}
FeatureStrings == {"", "f1", "f2"}
Triples == {"x86_64", "arm64"}
Profiles == {"dev", "ci"}

Options(S) == {None} \cup {Some(v) : v \in S}

\* a configuration whose lists are set: p as packages and Z, e as exclude and args
Lists(p, e) ==
    [Default EXCEPT !.packages = p, !.exclude = e, !.varargs = e, !.unstable_features = p]

\* the configurations of the documented merge examples
Examples ==
    { Lists(<<"y", "z">>, <<>>), Lists(<<"x", "y">>, <<>>), Lists(<<>>, <<"z">>) }

\* configurations with at most MaxElems package and exclude entries, and the examples
ListConfigs ==
    {Lists(l[1], l[2]) :
        l \in {m \in Seqs(PackageNames, MaxElems) \X Seqs(PackageNames, MaxElems) :
                  Len(m[1]) + Len(m[2]) <= MaxElems}}
    \cup Examples

\* configurations that differ from Default in target, jobs and profile, or in features and command
ScalarConfigs ==
    {[Default EXCEPT !.target = t, !.jobs = j, !.profile = p] :
        t \in Options(Triples), j \in Options(0..MaxJobs), p \in Options(Profiles)}
    \cup
    {[Default EXCEPT !.features = f, !.command = c] :
        f \in Options(FeatureStrings), c \in Mode}

\* a configuration with every field that is not a flag set
Busy ==
    [Lists(<<"x">>, <<"y">>) EXCEPT
        !.target = Some("arm64"), !.jobs = Some(MaxJobs), !.profile = Some("ci"),
        !.features = Some("f1"), !.command = "Build"]

\* no flag, one flag, all flags but one, all flags
FlagSets ==
    {{}, FlagNames} \cup {{f} : f \in FlagNames} \cup {FlagNames \ {f} : f \in FlagNames}

\* configurations with a set of flags raised, over Default and over Busy
FlagConfigs ==
    {[b EXCEPT !.locked = "locked" \in F, !.frozen = "frozen" \in F,
               !.all_features = "all_features" \in F,
               !.no_default_features = "no_default_features" \in F,
               !.all = "all" \in F, !.release = "release" \in F,
               !.offline = "offline" \in F] :
        b \in {Default, Busy}, F \in FlagSets}

\* layers for the pairwise reduction: lists, and a few settings of every other kind
LayerConfigs ==
    {Lists(l[1], l[2]) :
        l \in {m \in Seqs(PackageNames, MaxElems) \X Seqs(PackageNames, MaxElems) :
                  Len(m[1]) + Len(m[2]) <= MaxElems}}
    \cup {[Default EXCEPT !.features = Some(f)] : f \in {"", "f1"}}
    \cup {[Default EXCEPT !.jobs = Some(j), !.release = TRUE] : j \in 0..MaxJobs}
    \cup {[Default EXCEPT !.target = Some(t), !.profile = Some("ci"), !.command = "Build"] :
             t \in Triples}

----------------------------------------------------------------------------
(* State machine *)

InitFrom(D) ==
    /\ self \in D
    /\ other = Default
    /\ old = self
    /\ acc = self.packages
    /\ log = <<>>
    /\ merges = 0
    /\ layers = <<>>
    /\ right = Default
    /\ pc = "idle"

\* self.merge(&o)
MergeInto(o) ==
    /\ self' = Merged(self, o)
    /\ other' = o
    /\ old' = self
    /\ acc' = Accumulated(self, o).packages
    /\ log' = Events(self, o)
    /\ merges' = merges + 1

\* one more layer is merged into self
Merge(D) ==
    /\ pc = "idle"
    /\ merges < MaxMerges
    /\ \E o \in D : MergeInto(o)
    /\ UNCHANGED <<layers, right, pc>>

\* self.merge(&self.clone())
MergeClone ==
    /\ pc = "idle"
    /\ merges < MaxMerges
    /\ MergeInto(self)
    /\ UNCHANGED <<layers, right, pc>>

Init == InitFrom(ListConfigs)
Next == Merge(ListConfigs)
Spec == Init /\ [][Next]_vars

InitScalars == InitFrom(ScalarConfigs)
NextScalars == Merge(ScalarConfigs) \/ MergeClone
SpecScalars == InitScalars /\ [][NextScalars]_vars

InitFlags == InitFrom(FlagConfigs)
NextFlags == Merge(FlagConfigs)
SpecFlags == InitFlags /\ [][NextFlags]_vars

(* Pairwise reduction of three layers A, B, C, nested both ways:              *)
(* self = A; self.merge(&B); self.merge(&C)   and                            *)
(* right = B; right.merge(&C); then right = A with the merged B merged in.   *)

InitLayers ==
    /\ layers \in LayerConfigs \X LayerConfigs \X LayerConfigs
    /\ self = layers[1]
    /\ other = Default
    /\ old = self
    /\ acc = self.packages
    /\ log = <<>>
    /\ merges = 0
    /\ right = layers[2]
    /\ pc = "left_b"

\* a.merge(&b)
LeftB ==
    /\ pc = "left_b"
    /\ MergeInto(layers[2])
    /\ pc' = "left_c"
    /\ UNCHANGED <<layers, right>>

\* a.merge(&c)
LeftC ==
    /\ pc = "left_c"
    /\ MergeInto(layers[3])
    /\ pc' = "right_bc"
    /\ UNCHANGED <<layers, right>>

\* b.merge(&c) on a clone of b
RightBC ==
    /\ pc = "right_bc"
    /\ right' = Merged(right, layers[3])
    /\ pc' = "right_a"
    /\ UNCHANGED <<self, other, old, acc, log, merges, layers>>

\* a.merge(&b) on a clone of a, b being the result of RightBC
RightA ==
    /\ pc = "right_a"
    /\ right' = Merged(layers[1], right)
    /\ pc' = "done"
    /\ UNCHANGED <<self, other, old, acc, log, merges, layers>>

NextLayers == LeftB \/ LeftC \/ RightBC \/ RightA
SpecLayers == InitLayers /\ [][NextLayers]_vars

----------------------------------------------------------------------------
(* Properties of merge *)

Range(seq) == {seq[i] : i \in DOMAIN seq}

\* the elements of sec that occur nowhere in before, in sec's order
Novel(before, sec) == SelectSeq(sec, LAMBDA e : e \notin Range(before))

\* how often e occurs in seq
Count(seq, e) == Cardinality({i \in DOMAIN seq : seq[i] = e})

NoRepeat(seq) == \A i, j \in DOMAIN seq : seq[i] = seq[j] => i = j

\* a merge into self has returned
Returned == merges >= 1

\* C1: after merge returns, no element of self.packages equals an element of
\* self.exclude, whatever self and the argument were, and after every merge of a
\* sequence of merges.
PackagesDisjointFromExclude ==
    Returned => Range(self.packages) \cap Range(self.exclude) = {}

\* C1 witness: the second merge of a sequence purged a package and kept another.
SecondMergePurged ==
    /\ merges >= 2
    /\ log # <<>>
    /\ self.packages # <<>>
    /\ Range(old.packages) \cap Range(old.exclude) = {}

\* C2: exclude, args and Z after merge are the list before the merge followed by
\* the argument's elements that the list before did not contain, in the argument's
\* order; the same holds for packages as it stands before the retain.
ListsAccumulate ==
    Returned =>
        /\ acc = old.packages \o Novel(old.packages, other.packages)
        /\ self.exclude = old.exclude \o Novel(old.exclude, other.exclude)
        /\ self.varargs = old.varargs \o Novel(old.varargs, other.varargs)
        /\ self.unstable_features =
               old.unstable_features \o Novel(old.unstable_features, other.unstable_features)

\* C2 witness: packages [y, z] merged with packages [x, y], no excludes.
AccumulationExample ==
    /\ Returned
    /\ old.packages = <<"y", "z">> /\ other.packages = <<"x", "y">>
    /\ old.exclude = <<>> /\ other.exclude = <<>>
    /\ acc = <<"y", "z", "x">>
    /\ self.packages = <<"y", "z", "x">>

\* C3: a list of self without a repeated element before merge has none after it,
\* for each of packages, exclude, args and Z and for every argument.
NoRepeatPreserved ==
    Returned =>
        /\ NoRepeat(old.packages) => NoRepeat(self.packages)
        /\ NoRepeat(old.exclude) => NoRepeat(self.exclude)
        /\ NoRepeat(old.varargs) => NoRepeat(self.varargs)
        /\ NoRepeat(old.unstable_features) => NoRepeat(self.unstable_features)

\* C4: packages after merge is the accumulated list without the elements that
\* occur in the merged exclude, order kept; there is one event per removed element,
\* naming it, and no other event.
RetainPurgesAndNotifies ==
    Returned =>
        /\ self.packages = SelectSeq(acc, LAMBDA e : e \notin Range(self.exclude))
        /\ Len(log) = Len(acc) - Len(self.packages)
        /\ \A e \in Range(acc) \cup Range(log) :
               Count(log, e) = Count(acc, e) - Count(self.packages, e)

\* C4 witness: packages [y, z] merged with exclude [z].
PurgeExample ==
    /\ Returned
    /\ old.packages = <<"y", "z">> /\ old.exclude = <<>>
    /\ other.packages = <<>> /\ other.exclude = <<"z">>
    /\ self.packages = <<"y">>
    /\ log = <<"z">>

\* C5: for target, jobs and profile, a value set in self before merge survives
\* it; an unset one takes the argument's value, set or unset.
FirstWins ==
    Returned =>
        \A f \in {"target", "jobs", "profile"} :
            /\ old[f] # None => self[f] = old[f]
            /\ old[f] = None => self[f] = other[f]

\* C5 witness: both targets set and different, jobs unset in self and set in the argument.
FirstWinsExample ==
    /\ Returned
    /\ old.target = Some("x86_64") /\ other.target = Some("arm64")
    /\ self.target = Some("x86_64")
    /\ old.jobs = None /\ other.jobs # None /\ self.jobs = other.jobs
    /\ old.profile # None /\ other.profile # None /\ old.profile # other.profile

\* C6: features is unchanged when the argument has none, is the argument's when
\* self has none, and else is self's string, one space, the argument's string.
FeaturesConcatenate ==
    Returned =>
        /\ other.features = None => self.features = old.features
        /\ (other.features # None /\ old.features = None) => self.features = other.features
        /\ (other.features # None /\ old.features # None) =>
               /\ self.features # None
               /\ Len(self.features[1]) = Len(old.features[1]) + 1 + Len(other.features[1])
               /\ self.features[1] = old.features[1] \o " " \o other.features[1]

\* C6 witness: "f1" merged with "f2".
FeaturesExample ==
    /\ Returned
    /\ old.features = Some("f1") /\ other.features = Some("f2")
    /\ self.features = Some("f1 f2")

\* C7: each of the seven flags after merge is the OR of self's flag before and
\* the argument's flag.
FlagsOr ==
    Returned => \A f \in FlagNames : self[f] = (old[f] \/ other[f])

\* C7 witness: a flag only the argument raises, one only self raises and one
\* nobody raises, the two configurations differing in their other fields.
FlagsExample ==
    /\ Returned
    /\ ~old.release /\ other.release /\ self.release
    /\ old.locked /\ ~other.locked /\ self.locked
    /\ ~old.offline /\ ~other.offline /\ ~self.offline
    /\ old.target # other.target

\* C8: merge leaves self.command as it was.
CommandUntouched ==
    Returned => self.command = old.command

\* C8 witness: the argument's command differs from self's.
CommandExample ==
    /\ Returned
    /\ old.command = "Test" /\ other.command = "Build"
    /\ self.command = "Test"

\* C9: merging a clone of self into self leaves target, jobs and profile as they were.
CloneKeepsScalars ==
    (Returned /\ other = old) =>
        /\ self.target = old.target
        /\ self.jobs = old.jobs
        /\ self.profile = old.profile

\* C9 witness: a clone merged into a configuration with target and profile set and jobs unset.
CloneExample ==
    /\ Returned
    /\ other = old
    /\ old.target # None /\ old.profile # None /\ old.jobs = None
    /\ self.target = old.target

\* C10: merging B then C into A gives the configuration that merging (B with C
\* merged in) into A gives.
ReductionAssociative ==
    pc = "done" => self = right

\* C10 witness: a reduction in which a package of one layer is excluded by another.
ReductionExample ==
    /\ pc = "done"
    /\ layers[1].packages # <<>>
    /\ layers[2].packages # <<>>
    /\ layers[3].exclude # <<>>
    /\ Range(layers[2].packages) \cap Range(layers[3].exclude) # {}
    /\ self.packages # <<>>

====
